---- MODULE Spec2Model ----
(***************************************************************************)
(* A model of apod_desktop.py: one run of main() is a linear pipeline      *)
(* (directory and date parameters, schema creation, metadata request,     *)
(* image request, fingerprint, catalog lookup, conditional file write,    *)
(* wallpaper call).  The catalog file, the image files and the wallpaper  *)
(* persist from one run to the next; everything else is local to a run.   *)
(* Strings are tuples of characters, so that splitting, joining and date  *)
(* parsing are computed the way the library computes them.                *)
(***************************************************************************)
EXTENDS Integers, Sequences, FiniteSets, TLC

\* ------------------------------------------------------------------ bounds
MaxRuns == 3
MaxBodyLen == 1
MaxOps == 4

None == "None"

\* ----------------------------------------------------------------- strings
Seps == {"/", "\\"}
Digits == {"0", "1", "2", "3", "4", "5", "6", "7", "8", "9"}

DigitVal(c) ==
  CASE c = "0" -> 0 [] c = "1" -> 1 [] c = "2" -> 2 [] c = "3" -> 3
    [] c = "4" -> 4 [] c = "5" -> 5 [] c = "6" -> 6 [] c = "7" -> 7
    [] c = "8" -> 8 [] c = "9" -> 9

RECURSIVE IntOf(_)
IntOf(s) == IF s = <<>> THEN 0
            ELSE 10 * IntOf(SubSeq(s, 1, Len(s) - 1)) + DigitVal(s[Len(s)])

\* str.split(sep): the pieces between the occurrences of sep, empty ones kept
RECURSIVE Split(_, _)
Split(s, sep) ==
  IF \A i \in 1..Len(s) : s[i] # sep THEN <<s>>
  ELSE LET i == CHOOSE k \in 1..Len(s) :
                  s[k] = sep /\ \A j \in 1..(k - 1) : s[j] # sep
       IN <<SubSeq(s, 1, i - 1)>> \o Split(SubSeq(s, i + 1, Len(s)), sep)

\* os.path.join(a, p) of the Windows build (the wallpaper call is Windows')
PathJoin(a, p) ==
  IF p # <<>> /\ p[1] \in Seps THEN p
  ELSE IF a = <<>> \/ a[Len(a)] \in Seps THEN a \o p
  ELSE a \o <<"\\">> \o p

\* ------------------------------------------------------------------- dates
IsLeap(y) == (y % 4 = 0 /\ y % 100 # 0) \/ y % 400 = 0

DaysInMonth(y, m) ==
  IF m = 2 THEN (IF IsLeap(y) THEN 29 ELSE 28)
  ELSE IF m \in {4, 6, 9, 11} THEN 30 ELSE 31

\* the directive %Y: exactly four digits
MatchesY(f) == Len(f) = 4 /\ \A i \in 1..4 : f[i] \in Digits
\* the directive %m: 1[0-2] | 0[1-9] | [1-9]
MatchesM(f) ==
  \/ Len(f) = 2 /\ f[1] = "1" /\ f[2] \in {"0", "1", "2"}
  \/ Len(f) = 2 /\ f[1] = "0" /\ f[2] \in Digits \ {"0"}
  \/ Len(f) = 1 /\ f[1] \in Digits \ {"0"}
\* the directive %d: 3[01] | [12]\d | 0[1-9] | [1-9] | " "[1-9]
MatchesD(f) ==
  \/ Len(f) = 2 /\ f[1] = "3" /\ f[2] \in {"0", "1"}
  \/ Len(f) = 2 /\ f[1] \in {"1", "2"} /\ f[2] \in Digits
  \/ Len(f) = 2 /\ f[1] \in {"0", " "} /\ f[2] \in Digits \ {"0"}
  \/ Len(f) = 1 /\ f[1] \in Digits \ {"0"}

\* datetime.strptime(s, '%Y-%m-%d') returns (TRUE) or raises ValueError (FALSE)
strptime(s) ==
  LET f == Split(s, "-") IN
  /\ Len(f) = 3
  /\ MatchesY(f[1]) /\ MatchesM(f[2]) /\ MatchesD(f[3])
  /\ LET y == IntOf(f[1])
         m == IntOf(f[2])
         d == IntOf(IF f[3][1] = " " THEN Tail(f[3]) ELSE f[3])
     IN y >= 1 /\ d <= DaysInMonth(y, m)

\* ------------------------------------------------------------------ inputs
ProgName == <<"p">>
GoodDir == <<"d">>
BadDir == <<"x">>
DirArgs == {GoodDir, BadDir}
ExistingDirs == {GoodDir}

PaddedDate == <<"2", "0", "2", "2", "-", "0", "3", "-", "1", "1">>
SlashDate == <<"2", "0", "2", "2", "/", "1", "3", "/", "4", "0">>
Feb30Date == <<"2", "0", "2", "2", "-", "0", "2", "-", "3", "0">>
UnpaddedDate == <<"2", "0", "2", "2", "-", "3", "-", "5">>
DateArgs == {PaddedDate, SlashDate, Feb30Date, UnpaddedDate}
Today == <<"2", "0", "2", "2", "-", "0", "4", "-", "1", "7">>

Argvs ==
  {<<ProgName>>}
    \cup {<<ProgName, d>> : d \in DirArgs}
    \cup {<<ProgName, d, t>> : d \in DirArgs, t \in DateArgs}

UrlA == <<"s", "/", "a">>
UrlB == <<"s", "/", "b">>
UrlDir == <<"s", "/">>
Urls == {UrlA, UrlB, UrlDir}

Bytes == {0, 1}
Bodies == UNION {[1..n -> Bytes] : n \in 0..MaxBodyLen}

\* the metadata service answers 200 with a record (with or without 'url'),
\* 404, or another status; requests.get may also raise instead of answering
\* (the status, not the body, is what the program looks at, so a body of
\* either shape comes with every status)
ConnectionError == [raised |-> "ConnectionError"]
NoUrl == [title |-> "t"]
Statuses == {200, 404, 500}
MetaResponses ==
  {[status_code |-> s, json |-> j] :
     s \in Statuses, j \in {[url |-> u] : u \in Urls} \cup {NoUrl}}
ImageResponses ==
  {[status_code |-> s, content |-> b] : s \in Statuses, b \in Bodies}

\* ------------------------------------------------------------- fingerprint
\* sha256(content).hexdigest(): a collision-free digest of the bytes
RECURSIVE sha256(_)
sha256(content) ==
  IF content = <<>> THEN 0
  ELSE 2 * sha256(SubSeq(content, 1, Len(content) - 1))
         + content[Len(content)] + 1

\* ----------------------------------------------------------------- catalog
\* the database file: absent, or holding the table images with its rows
AbsentDb == [exists |-> FALSE, rows |-> <<>>]
OldPath == <<"o", "\\", "a">>
SeedBodies == {<<>>, <<0>>}
SeedRow(i, b) ==
  [id |-> i, full_path |-> OldPath, file_size |-> Len(b),
   hash_value |-> sha256(b), date_downloaded |-> 0]
\* catalogs left in the image directory before the first run: no two rows
\* share a digest
SeedCatalogs ==
  {<<>>}
    \cup {<<SeedRow(1, b)>> : b \in SeedBodies}
    \cup {<<SeedRow(1, bc[1]), SeedRow(2, bc[2])>> :
             bc \in {x \in SeedBodies \X SeedBodies : x[1] # x[2]}}
Hashes(rows) == {rows[i].hash_value : i \in 1..Len(rows)}
RowSet(rows) == {rows[i] : i \in 1..Len(rows)}

\* CREATE TABLE IF NOT EXISTS images (...): the rows of an existing table stay
\* variant: a CREATE TABLE that starts the table afresh
RecreateTable(d) == [exists |-> TRUE, rows |-> <<>>]
create_image_db(d) == [exists |-> TRUE, rows |-> d.rows]

\* what a well-formed INSERT of the four values does: the store assigns the id
InsertRow(d, image_path, image_size, image_sha256, now) ==
  [d EXCEPT !.rows =
     Append(@, [id |-> Len(@) + 1, full_path |-> image_path,
                file_size |-> image_size, hash_value |-> image_sha256,
                date_downloaded |-> now])]

\* the query text ends in "VALUES (?, ?, ?, ?) );": execute raises
\* sqlite3.OperationalError (near ")": syntax error) before anything is
\* written, so commit is never reached
add_image_to_db(d, image_path, image_size, image_sha256, now) ==
  [db |-> d, raised |-> "OperationalError"]

\* SELECT COUNT(id) from images WHERE hash_value = :hash, compared with 0
\* variant: a lookup that never finds the digest
AlwaysNotInDb(d, image_sha256) == FALSE
image_already_in_db(d, image_sha256) ==
  Cardinality({i \in 1..Len(d.rows) : d.rows[i].hash_value = image_sha256}) # 0

\* --------------------------------------------------------------- functions
Ret(v) == [ret |-> v, exit |-> FALSE, msg |-> None]
Abort(m) == [ret |-> None, exit |-> TRUE, msg |-> m]

\* argv[1] of the program is av[2] here: tuples count from 1
\* variant: the directory check without its exits
AnyDirAccepted(av) == IF Len(av) >= 2 THEN Ret(av[2]) ELSE Ret(BadDir)
get_image_dir_path(av) ==
  IF Len(av) >= 2
  THEN IF av[2] \in ExistingDirs THEN Ret(av[2])
       ELSE Abort("Error: Non-existent directory")
  ELSE Abort("Error: Missing path parameter.")

get_apod_date(av) ==
  IF Len(av) >= 3
  THEN IF strptime(av[3]) THEN Ret(av[3])
       ELSE Abort("Error: Incorrect date format; Should be YYYY-MM-DD")
  ELSE Ret(Today)

get_image_path(image_url, dir_path) ==
  LET parts == Split(image_url, "/")
      img_name == parts[Len(parts)]
  IN PathJoin(dir_path, img_name)

\* variant: 404 handled like 200
NotFoundAccepted(api_response) ==
  IF api_response.status_code \in {200, 404} THEN Ret(api_response.json)
  ELSE Abort("Unable to establish connection")
get_apod_info(api_response) ==
  IF api_response.status_code = 200 THEN Ret(api_response.json)
  ELSE IF api_response.status_code = 404
  THEN Abort("Unable to establish connection: 404 Make sure to input an existing past date.")
  ELSE Abort("Unable to establish connection")

\* variant: the response returned whatever its status
AnyStatusAccepted(response) == Ret(response)
download_apod_image(response) ==
  IF response.status_code = 200 THEN Ret(response)
  ELSE Abort("Error: Unable to retrieve image from URL.")

\* ------------------------------------------------------------------- state
VARIABLES
  run,             \* number of the current run of the program
  db,              \* the catalog file in the image directory
  files,           \* image files on disk: path -> bytes
  wallpaper,       \* the desktop background, None before the first call
  pc,              \* the statement of main() to execute next
  argv,
  exit_code,       \* exit status once the run has ended
  err,             \* the error message printed, if any
  image_dir_path, db_path, apod_date, apod_info_dict,
  image_url, image_msg, image_sha256, image_size, image_path,
  in_db,           \* what image_already_in_db returned in this run
  trace,           \* the steps of main() taken in this run, in order
  requests,        \* the HTTP requests issued in this run, in order
  written,         \* the image paths written in this run, in order
  bg_calls,        \* the paths given to the wallpaper call in this run
  db0,             \* the catalog file as it was when this run started
  ops              \* calls made by the catalog exerciser, with what they returned

persistent == <<run, db, files, wallpaper>>
params == <<argv, image_dir_path, db_path, apod_date>>
fetched == <<apod_info_dict, image_url, image_msg>>
fingerprint == <<image_sha256, image_size, image_path>>
effects == <<requests, written, bg_calls, db0>>
vars == <<persistent, pc, exit_code, err, params, fetched, fingerprint, in_db,
          trace, effects, ops>>

Terminal == {"exited", "crashed", "done"}
DbName == <<"apod_images.db">>

NoStr == <<>>
NoDict == [unset |-> TRUE]
NoMsg == [unset |-> TRUE]
NoFiles == [p \in {} |-> <<>>]

\* the values of a run that has not started executing main()
RunStart(av) ==
  /\ pc = "get_image_dir_path" /\ argv = av
  /\ exit_code = 0 /\ err = None
  /\ image_dir_path = NoStr /\ db_path = NoStr /\ apod_date = NoStr
  /\ apod_info_dict = NoDict /\ image_url = NoStr /\ image_msg = NoMsg
  /\ image_sha256 = -1 /\ image_size = -1 /\ image_path = NoStr
  /\ in_db = "unknown"
  /\ trace = <<>> /\ requests = <<>> /\ written = <<>> /\ bg_calls = <<>>

Init ==
  /\ run = 1
  /\ db \in {AbsentDb} \cup {[exists |-> TRUE, rows |-> r] : r \in SeedCatalogs}
  /\ db0 = db
  /\ files = NoFiles
  /\ wallpaper = NoStr
  /\ ops = <<>>
  /\ \E av \in Argvs : RunStart(av)

\* exit('Script execution aborted'): the message goes to stderr, status 1
Exit(step, m) ==
  /\ pc' = "exited" /\ exit_code' = 1 /\ err' = m
  /\ trace' = Append(trace, step)

\* an exception nobody catches: traceback, status 1
Crash(step, e) ==
  /\ pc' = "crashed" /\ exit_code' = 1 /\ err' = e
  /\ trace' = Append(trace, step)

Goto(step, next) ==
  /\ pc' = next /\ trace' = Append(trace, step)
  /\ UNCHANGED <<exit_code, err>>

\* lines 36-37
MainGetImageDirPath ==
  /\ pc = "get_image_dir_path"
  /\ LET r == get_image_dir_path(argv) IN
       IF r.exit
       THEN /\ Exit("get_image_dir_path", r.msg)
            /\ UNCHANGED <<image_dir_path, db_path>>
       ELSE /\ image_dir_path' = r.ret
            /\ db_path' = PathJoin(r.ret, DbName)
            /\ Goto("get_image_dir_path", "get_apod_date")
  /\ UNCHANGED <<persistent, argv, apod_date, fetched, fingerprint, in_db,
                 effects, ops>>

\* line 40
MainGetApodDate ==
  /\ pc = "get_apod_date"
  /\ LET r == get_apod_date(argv) IN
       IF r.exit
       THEN /\ Exit("get_apod_date", r.msg)
            /\ UNCHANGED apod_date
       ELSE /\ apod_date' = r.ret
            /\ Goto("get_apod_date", "create_image_db")
  /\ UNCHANGED <<persistent, argv, image_dir_path, db_path, fetched,
                 fingerprint, in_db, effects, ops>>

\* line 43
MainCreateImageDb ==
  /\ pc = "create_image_db"
  /\ db' = create_image_db(db)
  /\ Goto("create_image_db", "get_apod_info")
  /\ UNCHANGED <<run, files, wallpaper, params, fetched, fingerprint, in_db,
                 effects, ops>>

\* variant: a fetcher that asks again after an answer other than 200
MainGetApodInfoRetrying ==
  /\ pc = "get_apod_info"
  /\ \E api_response \in MetaResponses :
       /\ requests' = Append(requests, [to |-> "apod", url |-> NoStr,
                                        status |-> api_response.status_code])
       /\ LET r == get_apod_info(api_response) IN
            IF r.exit
            THEN IF Len(requests) < 2
                 THEN /\ Goto("get_apod_info", "get_apod_info")
                      /\ UNCHANGED apod_info_dict
                 ELSE /\ Exit("get_apod_info", r.msg)
                      /\ UNCHANGED apod_info_dict
            ELSE /\ apod_info_dict' = r.ret
                 /\ Goto("get_apod_info", "download_apod_image")
  /\ UNCHANGED <<persistent, params, image_url, image_msg, fingerprint, in_db,
                 written, bg_calls, db0, ops>>

\* line 46: one GET of the metadata, then the status decides
MainGetApodInfo ==
  /\ pc = "get_apod_info"
  /\ \E api_response \in MetaResponses \cup {ConnectionError} :
       IF api_response = ConnectionError
       THEN /\ requests' = Append(requests, [to |-> "apod", url |-> NoStr, status |-> 0])
            /\ Crash("get_apod_info", "ConnectionError")
            /\ UNCHANGED apod_info_dict
       ELSE /\ requests' = Append(requests, [to |-> "apod", url |-> NoStr,
                                             status |-> api_response.status_code])
            /\ LET r == get_apod_info(api_response) IN
                 IF r.exit
                 THEN /\ Exit("get_apod_info", r.msg)
                      /\ UNCHANGED apod_info_dict
                 ELSE /\ apod_info_dict' = r.ret
                      /\ Goto("get_apod_info", "download_apod_image")
  /\ UNCHANGED <<persistent, params, image_url, image_msg, fingerprint, in_db,
                 written, bg_calls, db0, ops>>

\* lines 49-50: the 'url' entry (KeyError without it), then one GET of it
MainDownloadApodImage ==
  /\ pc = "download_apod_image"
  /\ IF "url" \notin DOMAIN apod_info_dict
     THEN /\ Crash("download_apod_image", "KeyError")
          /\ UNCHANGED <<image_url, image_msg, requests>>
     ELSE /\ image_url' = apod_info_dict.url
          /\ \E response \in ImageResponses \cup {ConnectionError} :
               IF response = ConnectionError
               THEN /\ requests' = Append(requests, [to |-> "image", url |-> image_url',
                                                     status |-> 0])
                    /\ Crash("download_apod_image", "ConnectionError")
                    /\ UNCHANGED image_msg
               ELSE /\ requests' = Append(requests, [to |-> "image", url |-> image_url',
                                                     status |-> response.status_code])
                    /\ LET r == download_apod_image(response) IN
                         IF r.exit
                         THEN /\ Exit("download_apod_image", r.msg)
                              /\ UNCHANGED image_msg
                         ELSE /\ image_msg' = r.ret
                              /\ Goto("download_apod_image", "sha256")
  /\ UNCHANGED <<persistent, params, apod_info_dict, fingerprint, in_db,
                 written, bg_calls, db0, ops>>

\* lines 51-56: digest, size and local path of the downloaded image
MainFingerprint ==
  /\ pc = "sha256"
  /\ image_sha256' = sha256(image_msg.content)
  /\ image_size' = Len(image_msg.content)
  /\ image_path' = get_image_path(image_url, image_dir_path)
  /\ Goto("sha256", "image_already_in_db")
  /\ UNCHANGED <<persistent, params, fetched, in_db, effects, ops>>

\* line 59: the lookup decides between writing and not writing
MainImageAlreadyInDb ==
  /\ pc = "image_already_in_db"
  /\ IF ~db.exists
     THEN /\ Crash("image_already_in_db", "OperationalError")
          /\ UNCHANGED in_db
     ELSE IF image_already_in_db(db, image_sha256)
     THEN /\ in_db' = "found"
          /\ Goto("image_already_in_db", "set_desktop_background_image")
     ELSE /\ in_db' = "absent"
          /\ Goto("image_already_in_db", "save_image_file")
  /\ UNCHANGED <<persistent, params, fetched, fingerprint, effects, ops>>

\* open(image_path, 'wb') raises when the path names a directory
IsDirPath(p) == p \in ExistingDirs \/ (p # <<>> /\ p[Len(p)] \in Seps)

\* lines 212-215: the bytes replace whatever the path held
save_image_file(fs, msg, path) == (path :> msg.content) @@ fs

\* line 61 is commented out: after the file is saved main() does nothing to
\* the catalog
\* variant: line 61 in force, with an INSERT that works
InsertAfterSave(d, path, size, digest, now) == InsertRow(d, path, size, digest, now)
catalog_after_save(d, path, size, digest, now) == d

\* lines 60-61
MainSaveImageFile ==
  /\ pc = "save_image_file"
  /\ IF IsDirPath(image_path)
     THEN /\ Crash("save_image_file", "OSError")
          /\ UNCHANGED <<files, written, db>>
     ELSE /\ files' = save_image_file(files, image_msg, image_path)
          /\ written' = Append(written, image_path)
          /\ db' = catalog_after_save(db, image_path, image_size, image_sha256, run)
          /\ Goto("save_image_file", "set_desktop_background_image")
  /\ UNCHANGED <<run, wallpaper, params, fetched, fingerprint, in_db,
                 requests, bg_calls, db0, ops>>

\* line 64: SystemParametersInfoW(20, 0, image_path, 0), then main() returns
MainSetDesktopBackgroundImage ==
  /\ pc = "set_desktop_background_image"
  /\ wallpaper' = image_path
  /\ bg_calls' = Append(bg_calls, image_path)
  /\ pc' = "done" /\ exit_code' = 0 /\ UNCHANGED err
  /\ trace' = Append(trace, "set_desktop_background_image")
  /\ UNCHANGED <<run, db, files, params, fetched, fingerprint, in_db,
                 requests, written, db0, ops>>

\* the program is started again once the previous run has ended
NewRun ==
  /\ pc \in Terminal
  /\ run < MaxRuns
  /\ run' = run + 1
  /\ db0' = db
  /\ \E av \in Argvs :
       /\ pc' = "get_image_dir_path" /\ argv' = av
       /\ exit_code' = 0 /\ err' = None
       /\ image_dir_path' = NoStr /\ db_path' = NoStr /\ apod_date' = NoStr
       /\ apod_info_dict' = NoDict /\ image_url' = NoStr /\ image_msg' = NoMsg
       /\ image_sha256' = -1 /\ image_size' = -1 /\ image_path' = NoStr
       /\ in_db' = "unknown"
       /\ trace' = <<>> /\ requests' = <<>> /\ written' = <<>> /\ bg_calls' = <<>>
  /\ UNCHANGED <<db, files, wallpaper, ops>>

Next ==
  \/ MainGetImageDirPath
  \/ MainGetApodDate
  \/ MainCreateImageDb
  \/ MainGetApodInfo
  \/ MainDownloadApodImage
  \/ MainFingerprint
  \/ MainImageAlreadyInDb
  \/ MainSaveImageFile
  \/ MainSetDesktopBackgroundImage
  \/ NewRun

Spec == Init /\ [][Next]_vars

\* ------------------------------------------------------- catalog exerciser
\* The three catalog functions called directly, in any order, on the catalog
\* file of an empty image directory; every call and what it returned (or
\* raised) is logged in ops.
CatalogInit ==
  /\ run = 1 /\ db = AbsentDb /\ db0 = AbsentDb
  /\ files = NoFiles /\ wallpaper = NoStr /\ ops = <<>>
  /\ pc = "catalog" /\ argv = <<ProgName, GoodDir>>
  /\ exit_code = 0 /\ err = None
  /\ image_dir_path = GoodDir /\ db_path = PathJoin(GoodDir, DbName)
  /\ apod_date = NoStr /\ apod_info_dict = NoDict
  /\ image_url = NoStr /\ image_msg = NoMsg
  /\ image_sha256 = -1 /\ image_size = -1 /\ image_path = NoStr
  /\ in_db = "unknown"
  /\ trace = <<>> /\ requests = <<>> /\ written = <<>> /\ bg_calls = <<>>

CatalogFrame ==
  UNCHANGED <<run, files, wallpaper, pc, exit_code, err, params, fetched,
              fingerprint, in_db, trace, effects>>

CatalogCreate ==
  /\ pc = "catalog" /\ Len(ops) < MaxOps
  /\ db' = create_image_db(db)
  /\ ops' = Append(ops, [op |-> "create_image_db", hash |-> -1, ret |-> "None"])
  /\ CatalogFrame

CatalogAdd ==
  /\ pc = "catalog" /\ Len(ops) < MaxOps
  /\ \E b \in Bodies :
       LET r == add_image_to_db(db, get_image_path(UrlA, image_dir_path),
                                Len(b), sha256(b), Len(ops))
       IN /\ db' = r.db
          /\ ops' = Append(ops, [op |-> "add_image_to_db", hash |-> sha256(b),
                                 ret |-> r.raised])
  /\ CatalogFrame

\* without the table the SELECT raises (no such table: images)
CatalogLookup ==
  /\ pc = "catalog" /\ Len(ops) < MaxOps
  /\ \E b \in Bodies :
       ops' = Append(ops, [op |-> "image_already_in_db", hash |-> sha256(b),
                           ret |-> IF ~db.exists THEN "OperationalError"
                                   ELSE IF image_already_in_db(db, sha256(b))
                                   THEN "True" ELSE "False"])
  /\ UNCHANGED db
  /\ CatalogFrame

CatalogNext == CatalogCreate \/ CatalogAdd \/ CatalogLookup

SpecCatalog == CatalogInit /\ [][CatalogNext]_vars

\* ============================================================== properties
StatusesOf(to) == {requests[i].status : i \in {k \in 1..Len(requests) : requests[k].to = to}}
CountOf(to) == Cardinality({k \in 1..Len(requests) : requests[k].to = to})
Steps == {trace[i] : i \in 1..Len(trace)}
UniqueHashes(rows) ==
  \A i, j \in 1..Len(rows) : rows[i].hash_value = rows[j].hash_value => i = j
NewRows == RowSet(db.rows) \ RowSet(db0.rows)
LookedUp == in_db # "unknown"

\* C1: a run that looked up a digest the catalog did not hold, and completed,
\* has written the image bytes to <image directory>/<last segment of the URL>
\* and has added exactly one catalog row, carrying the digest, size and path.
C1_FreshDownloadIsRecorded ==
  (pc = "done" /\ in_db = "absent") =>
    /\ image_path = PathJoin(image_dir_path, Split(image_url, "/")[Len(Split(image_url, "/"))])
    /\ image_path \in DOMAIN files
    /\ files[image_path] = image_msg.content
    /\ Len(db.rows) = Len(db0.rows) + 1
    /\ \E r \in NewRows :
         /\ r.hash_value = image_sha256
         /\ r.file_size = image_size
         /\ r.full_path = image_path

\* C2: in a run whose image digest was in the catalog before the run, no
\* image file is written, no catalog row is added, the run goes from the
\* lookup straight to the wallpaper call, and that call gets the path
\* computed from the URL and the image directory.
DigestWasCatalogued == image_sha256 # -1 /\ image_sha256 \in Hashes(db0.rows)
C2_CacheHitSkipsWriteSetsBackground ==
  DigestWasCatalogued =>
    /\ written = <<>>
    /\ "save_image_file" \notin Steps
    /\ db.rows = db0.rows
    /\ pc \in {"image_already_in_db", "set_desktop_background_image", "done"}
    /\ (pc = "done" =>
          bg_calls = <<PathJoin(image_dir_path,
                                Split(image_url, "/")[Len(Split(image_url, "/"))])>>)
C2_Witness ==
  /\ DigestWasCatalogued /\ pc = "done" /\ in_db = "found"
  /\ bg_calls = <<image_path>> /\ wallpaper = image_path
  /\ \A i \in 1..Len(db0.rows) : db0.rows[i].full_path # image_path

\* C3 as stated: in a run whose metadata request returned 404, nothing is
\* written, the catalog store is not changed in any way, no image request is
\* issued and the background is not set.
MetaReturned404 == 404 \in StatusesOf("apod")
C3_NotFoundTouchesNothing ==
  MetaReturned404 =>
    /\ written = <<>>
    /\ db = db0
    /\ CountOf("image") = 0
    /\ bg_calls = <<>>
\* C3 as amended: in a run whose metadata request returned 404 the process
\* has exited with status 1, no image file was written, no image request was
\* issued, the background was not set, and the catalog rows are those of the
\* start of the run; the only change to the catalog store is the creation of
\* the table when it was absent, which precedes the metadata request.
C3_NotFoundKeepsRows ==
  MetaReturned404 =>
    /\ pc = "exited" /\ exit_code = 1
    /\ written = <<>>
    /\ db.rows = db0.rows /\ db = create_image_db(db0)
    /\ CountOf("image") = 0
    /\ bg_calls = <<>> /\ "set_desktop_background_image" \notin Steps
C3_Witness ==
  /\ MetaReturned404 /\ pc = "exited"
  /\ ~db0.exists /\ db.exists

\* C4: a run with a usage error (no directory argument, a directory argument
\* that names no directory, or a date argument that is not a valid
\* YYYY-MM-DD date) issues no request and ends with a non-zero status.
\* a string that has the documented form YYYY-MM-DD and names a calendar day
IsYYYYMMDD(s) ==
  /\ Len(s) = 10 /\ s[5] = "-" /\ s[8] = "-"
  /\ \A i \in {1, 2, 3, 4, 6, 7, 9, 10} : s[i] \in Digits
  /\ LET y == IntOf(SubSeq(s, 1, 4))
         m == IntOf(SubSeq(s, 6, 7))
         d == IntOf(SubSeq(s, 9, 10))
     IN y >= 1 /\ m \in 1..12 /\ d \in 1..DaysInMonth(y, m)
UsageError(av) ==
  \/ Len(av) < 2
  \/ av[2] \notin ExistingDirs
  \/ Len(av) >= 3 /\ ~IsYYYYMMDD(av[3])
C4_UsageErrorBeforeNetwork ==
  UsageError(argv) =>
    /\ requests = <<>>
    /\ pc \in {"get_image_dir_path", "get_apod_date", "exited"}
    /\ (pc = "exited" => exit_code # 0)

\* C5: a lookup of a digest returns False when no add_image_to_db call was
\* made with it since the table was created, and True when one was.
TableCreatedBefore(i) == \E k \in 1..(i - 1) : ops[k].op = "create_image_db"
AddedBefore(i, h) ==
  \E k \in 1..(i - 1) : ops[k].op = "add_image_to_db" /\ ops[k].hash = h
C5_ReadAfterWrite ==
  \A i \in 1..Len(ops) :
    (ops[i].op = "image_already_in_db" /\ TableCreatedBefore(i)) =>
      ops[i].ret = (IF AddedBefore(i, ops[i].hash) THEN "True" ELSE "False")

ImageNot200 == StatusesOf("image") \ {200, 0} # {}
C7_ImageFailureAborts ==
  ImageNot200 =>
    /\ pc = "exited" /\ exit_code = 1
    /\ err = "Error: Unable to retrieve image from URL."
    /\ ~LookedUp /\ "image_already_in_db" \notin Steps
    /\ written = <<>>
    /\ db.rows = db0.rows
    /\ bg_calls = <<>> /\ "set_desktop_background_image" \notin Steps
C7_Witness ==
  /\ ImageNot200 /\ pc = "exited"
  /\ requests[1].status = 200 /\ db0.rows # <<>>

\* C8: a run issues at most one metadata request and at most one image
\* request; the image request comes only after the metadata request
\* returned 200; after a metadata answer other than 200 the process has
\* ended with a non-zero status and that request is the only one.
C8_SingleAttempt ==
  /\ CountOf("apod") <= 1
  /\ CountOf("image") <= 1
  /\ (CountOf("image") = 1 =>
        /\ Len(requests) = 2
        /\ requests[1].to = "apod" /\ requests[1].status = 200
        /\ requests[2].to = "image")
  /\ ((CountOf("apod") = 1 /\ 200 \notin StatusesOf("apod")) =>
        /\ Len(requests) = 1
        /\ pc \in {"exited", "crashed"} /\ exit_code # 0
        /\ (requests[1].status # 0 => pc = "exited"))
C8_Witness ==
  /\ Len(requests) = 1 /\ requests[1].to = "apod" /\ requests[1].status = 500
  /\ pc = "exited" /\ db.exists /\ written = <<>>

Order ==
  <<"get_image_dir_path", "get_apod_date", "create_image_db", "get_apod_info",
    "download_apod_image", "sha256", "image_already_in_db", "save_image_file",
    "set_desktop_background_image">>
Pos(step) == CHOOSE i \in 1..Len(Order) : Order[i] = step
ParamsAccepted ==
  /\ Len(argv) >= 2 /\ argv[2] \in ExistingDirs
  /\ (Len(argv) >= 3 => strptime(argv[3]))
====
